---- MODULE Spec2Model ----
(***************************************************************************)
(* A model of sams_gas_prices.py: the SQLite history store (clubs,         *)
(* price_history, scraping_log), the wall clock read by every store        *)
(* operation, the scrape orchestrator (main / scrape_all_clubs) stepping   *)
(* through one location at a time, and the aggregation functions.          *)
(***************************************************************************)
EXTENDS Integers, Sequences, FiniteSets, TLC

(***************************************************************************)
(* Bounds of the model.                                                    *)
(***************************************************************************)
MaxEvents == 2         \* clock advances, manual calls and terminations
MaxFetches == 3        \* real fetch attempts, over all clubs and dates
MaxCalls == 2          \* direct calls of the store's functions

(***************************************************************************)
(* Program constants.                                                      *)
(***************************************************************************)
LatestLimit == 10      \* LIMIT 10 of get_latest_prices
TrendDays == 7         \* days = 7 of get_price_trends
HistoryDays == 30      \* days = 30 of get_price_history

\* A string value of the program is a sequence of pieces: a piece is one
\* character where the code looks inside the string (prices), and a whole
\* word elsewhere (messages).
NAN == <<"N", "A", "N">>

\* The clubs, in the iteration order of {**locations, **ADDITIONAL_CLUBS}: the
\* first entry of each of the two dicts.
locations == <<"Avondale">>

ADDITIONAL_CLUBS == <<"Tempe">>

all_locations == locations \o ADDITIONAL_CLUBS

total_clubs == Len(all_locations)

ClubSet == {all_locations[n] : n \in 1..total_clubs}

\* A URL is the sequence of its path segments under BASE_URL.
ClubUrl(name) ==
    CASE name = "Avondale" -> <<"club", "4830-avondale-az">>
      [] name = "Bullhead City" -> <<"club", "4915-bullhead-city-az">>
      [] name = "Chandler" -> <<"club", "6213-chandler-az">>
      [] name = "Tempe" -> <<"club", "4956-tempe-az">>

\* KNOWN_ADDRESSES.get(club_name, "NAN")
KNOWN_ADDRESSES(name) ==
    CASE name = "Avondale" -> "Avondale, AZ"
      [] name = "Bullhead City" -> "Bullhead City, AZ"
      [] name = "Chandler" -> "Chandler, AZ"
      [] name = "Tempe" -> "Tempe, AZ"
      [] OTHER -> "NAN"

VARIABLES
    today,          \* date.today()
    now,            \* datetime.now() within the date
    clubs,          \* table clubs: the rows, in insertion order
    price_history,  \* table price_history, in rowid order
    scraping_log,   \* table scraping_log, in rowid order
    pc,             \* where the running process stands ("idle": no process)
    idx,            \* position in the loop over the configured clubs
    locals,         \* club_info, prices, success, ... of the club in hand, and
                    \* (history) the URL get_gas_prices was given, the rows
                    \* it returned and the date check_if_scraped_today used
    all_clubs,      \* the results collected by scrape_all_clubs
    started,        \* history: the date on which the running process started
    completed,      \* history: dates within which a whole run was made
    fetches,        \* history: real fetch attempts per <<club, date>>
    events,         \* history: clock advances, manual calls and terminations
    interrupts,     \* history: process terminations
    call            \* history: the last direct call of a function, its
                    \* arguments and its result

vars == <<today, now, clubs, price_history, scraping_log, pc, idx, locals,
          all_clubs, started, completed, fetches, events, interrupts, call>>

store == <<clubs, price_history, scraping_log>>

clock == <<today, now>>

proc == <<pc, idx, locals, all_clubs, started>>

history == <<completed, fetches, events, interrupts, call>>

Days == 1..(MaxEvents + 1)

NoLocals == [set |-> FALSE]

NoCall == [op |-> "none", n |-> 0]

(***************************************************************************)
(* The clock.                                                              *)
(***************************************************************************)
get_today_date == today

get_current_time == now

(***************************************************************************)
(* The history store.  Every operation opens the database, runs, commits   *)
(* and closes: it is one atomic step, and it reads the clock itself.       *)
(***************************************************************************)
\* Mutant: only successful attempts count.
check_if_scraped_today_SuccessOnly(club_name) ==
    Cardinality({n \in DOMAIN scraping_log :
                    /\ scraping_log[n].club_name = club_name
                    /\ scraping_log[n].scraped_date = get_today_date
                    /\ scraping_log[n].success}) > 0

\* SELECT COUNT(*) FROM scraping_log WHERE club_name = ? AND scraped_date = ?
check_if_scraped_today(club_name) ==
    Cardinality({n \in DOMAIN scraping_log :
                    /\ scraping_log[n].club_name = club_name
                    /\ scraping_log[n].scraped_date = get_today_date}) > 0

\* Mutant: the row replaces the table's rows instead of joining them.
log_scraping_attempt_Overwrite(club_name, success, error_message, prices_found) ==
    <<[club_name |-> club_name,
       scraped_date |-> get_today_date,
       scraped_time |-> get_current_time,
       success |-> success,
       error_message |-> error_message,
       prices_found |-> prices_found]>>

\* Mutant: the row is written without today's date.
log_scraping_attempt_Undated(club_name, success, error_message, prices_found) ==
    Append(scraping_log,
           [club_name |-> club_name,
            scraped_date |-> 0,
            scraped_time |-> get_current_time,
            success |-> success,
            error_message |-> error_message,
            prices_found |-> prices_found])

\* The table scraping_log after log_scraping_attempt.
log_scraping_attempt(club_name, success, error_message, prices_found) ==
    Append(scraping_log,
           [club_name |-> club_name,
            scraped_date |-> get_today_date,
            scraped_time |-> get_current_time,
            success |-> success,
            error_message |-> error_message,
            prices_found |-> prices_found])

\* Mutant: save_club_info writes the row of the name anew.
save_club_info_Replace(club_info) ==
    SelectSeq(clubs, LAMBDA row : row.name # club_info.name)
        \o <<[name |-> club_info.name,
              address |-> club_info.address,
              club_url |-> club_info.club_url,
              fuel_url |-> club_info.fuel_url,
              created_date |-> <<get_today_date, get_current_time>>,
              last_updated |-> <<get_today_date, get_current_time>>]>>

\* The table clubs after save_club_info: UPDATE ... WHERE name = ? when a row
\* of the name exists, INSERT otherwise.
save_club_info(club_info) ==
    LET stamp == <<get_today_date, get_current_time>>
        existing == \E n \in DOMAIN clubs : clubs[n].name = club_info.name
    IN  IF existing
        THEN [n \in DOMAIN clubs |->
                 IF clubs[n].name = club_info.name
                 THEN [clubs[n] EXCEPT !.address = club_info.address,
                                       !.club_url = club_info.club_url,
                                       !.fuel_url = club_info.fuel_url,
                                       !.last_updated = stamp]
                 ELSE clubs[n]]
        ELSE Append(clubs,
                 [name |-> club_info.name,
                  address |-> club_info.address,
                  club_url |-> club_info.club_url,
                  fuel_url |-> club_info.fuel_url,
                  created_date |-> stamp,
                  last_updated |-> stamp])

\* The categories save_price_data refuses to insert.
SavePriceSkipped == {"Error", "No prices found", "Unknown", "No prices available"}

Observation(club_name, row, source) ==
    [club_name |-> club_name,
     fuel_type |-> row[1],
     price |-> row[2],
     scraped_date |-> get_today_date,
     scraped_time |-> get_current_time,
     source |-> source]

\* The table price_history after save_price_data: rows are <<fuel_type, price>>.
save_price_data(club_name, prices) ==
    IF prices = <<>>
    THEN price_history
    ELSE LET kept == SelectSeq(prices, LAMBDA row : row[1] \notin SavePriceSkipped)
         IN  price_history \o
             [n \in 1..Len(kept) |-> Observation(club_name, kept[n], "scraped")]

\* Mutant: a manual price takes the place of the club's rows of that fuel type.
add_manual_prices_Update(club_name, fuel_type, price) ==
    Append(SelectSeq(price_history, LAMBDA row :
               ~(row.club_name = club_name /\ row.fuel_type = fuel_type)),
           Observation(club_name, <<fuel_type, price>>, "manual"))

\* The table price_history after add_manual_prices.
add_manual_prices(club_name, fuel_type, price) ==
    Append(price_history, Observation(club_name, <<fuel_type, price>>, "manual"))

\* ORDER BY scraped_date DESC, scraped_time DESC leaves the order of rows with
\* equal date and time to the engine: either rowid order can come out.
TieOrders == {"rowid_asc", "rowid_desc"}

Newer(n, m, tie) ==
    \/ price_history[n].scraped_date > price_history[m].scraped_date
    \/ /\ price_history[n].scraped_date = price_history[m].scraped_date
       /\ price_history[n].scraped_time > price_history[m].scraped_time
    \/ /\ price_history[n].scraped_date = price_history[m].scraped_date
       /\ price_history[n].scraped_time = price_history[m].scraped_time
       /\ IF tie = "rowid_asc" THEN n < m ELSE n > m

\* The rowids of S in the order of their ranks.
InRankOrder(S, rank) ==
    [k \in 1..Cardinality(S) |-> CHOOSE n \in S : rank[n] = k - 1]

\* The rowids of S, newest first: the rank of a row is the number of rows of S
\* that come before it.
NewestFirst(S, tie) ==
    InRankOrder(S, [n \in S |-> Cardinality({m \in S : Newer(m, n, tie)})])

RECURSIVE FirstPerFuelType(_, _)
\* latest_prices: the first price seen for each fuel_type, in order of first
\* appearance (a dict keeps insertion order).
FirstPerFuelType(rows, seen) ==
    IF rows = <<>>
    THEN <<>>
    ELSE IF Head(rows)[1] \in seen
         THEN FirstPerFuelType(Tail(rows), seen)
         ELSE <<Head(rows)>> \o
              FirstPerFuelType(Tail(rows), seen \cup {Head(rows)[1]})

Min2(a, b) == IF a < b THEN a ELSE b

\* Mutant: the rows are read oldest first.
get_latest_prices_Oldest(club_name, tie) ==
    LET mine == {n \in DOMAIN price_history :
                    price_history[n].club_name = club_name}
        newest == NewestFirst(mine, tie)
        order == [n \in 1..Len(newest) |-> newest[Len(newest) + 1 - n]]
        top == SubSeq(order, 1, Min2(LatestLimit, Len(order)))
        rows == [n \in 1..Len(top) |->
                    <<price_history[top[n]].fuel_type, price_history[top[n]].price>>]
    IN  FirstPerFuelType(rows, {})

\* Mutant: only the newest row is read (LIMIT 1).
get_latest_prices_One(club_name, tie) ==
    LET mine == {n \in DOMAIN price_history :
                    price_history[n].club_name = club_name}
        order == NewestFirst(mine, tie)
        top == SubSeq(order, 1, Min2(1, Len(order)))
    IN  [n \in 1..Len(top) |->
            <<price_history[top[n]].fuel_type, price_history[top[n]].price>>]

\* get_latest_prices: list(latest_prices.items()).
get_latest_prices(club_name, tie) ==
    LET mine == {n \in DOMAIN price_history :
                    price_history[n].club_name = club_name}
        order == NewestFirst(mine, tie)
        top == SubSeq(order, 1, Min2(LatestLimit, Len(order)))
        rows == [n \in 1..Len(top) |->
                    <<price_history[top[n]].fuel_type, price_history[top[n]].price>>]
    IN  FirstPerFuelType(rows, {})

\* date('now') is the date in UTC: the local date, or the day before or after.
UtcDates == {today - 1, today, today + 1}

\* The columns get_price_history selects, of the rows with the rowids order.
SelectedRows(order) ==
    [n \in 1..Len(order) |->
        [club_name |-> price_history[order[n]].club_name,
         fuel_type |-> price_history[order[n]].fuel_type,
         price |-> price_history[order[n]].price,
         scraped_date |-> price_history[order[n]].scraped_date,
         scraped_time |-> price_history[order[n]].scraped_time]]

\* Mutant: the window is the current date alone.
get_price_history_SameDay(club_name, days, utc_today, tie) ==
    SelectedRows(NewestFirst({n \in DOMAIN price_history :
                                /\ club_name # "" => price_history[n].club_name = club_name
                                /\ price_history[n].scraped_date >= utc_today},
                             tie))

\* get_price_history: the rows of the window, newest first; club_name "" stands
\* for None, utc_today for date('now').
get_price_history(club_name, days, utc_today, tie) ==
    SelectedRows(NewestFirst({n \in DOMAIN price_history :
                                /\ club_name # "" => price_history[n].club_name = club_name
                                /\ price_history[n].scraped_date >= utc_today - days},
                             tie))

(***************************************************************************)
(* Fetching and extraction.  A response is what requests.get produced:     *)
(* kind "ok" with a page, or a failure with the text of its exception.     *)
(* A page is seen through the selectors the code applies to it:            *)
(*   address_elems[k]  select_one of the k-th address selector             *)
(*   text_address      the match of the "City, ST ZIP" pattern in the text *)
(*   fuel_links[k]     the anchor found by the k-th fuel-link selector     *)
(*   cards             the "pa3 br3 flex-grow-1" cards, in document order  *)
(*   fallback[k]       the cards selected by the k-th fallback selector    *)
(*   text_prices       the matches of the price pattern in the text        *)
(*   bot               the text contains "robot" or "captcha"              *)
(***************************************************************************)
NoElem == [found |-> FALSE, text |-> <<>>]

Elem(text) == [found |-> TRUE, text |-> text]

NoLink == [found |-> FALSE, form |-> "none", path |-> <<>>]

EmptyPage ==
    [bot |-> FALSE,
     address_elems |-> <<NoElem, NoElem, NoElem, NoElem, NoElem>>,
     text_address |-> NoElem,
     fuel_links |-> <<NoLink, NoLink, NoLink, NoLink>>,
     cards |-> <<>>,
     fallback |-> <<<<>>, <<>>, <<>>, <<>>, <<>>>>,
     text_prices |-> <<>>]

Ok(page) == [kind |-> "ok", error |-> <<>>, page |-> page]

Failed(kind, error) == [kind |-> kind, error |-> error, page |-> EmptyPage]

\* fetch_html: the parsed page, or None for a failure or a bot-protection page.
fetch_html(resp) ==
    IF resp.kind = "ok" /\ ~resp.page.bot
    THEN [soup |-> TRUE, page |-> resp.page]
    ELSE [soup |-> FALSE, page |-> EmptyPage]

RECURSIVE FirstFound(_)
\* The first element of a sequence of select_one results that was found.
FirstFound(elems) ==
    IF elems = <<>>
    THEN NoElem
    ELSE IF Head(elems).found THEN Head(elems) ELSE FirstFound(Tail(elems))

\* get_club_info, given the response to its request.
get_club_info(resp, club_url, club_name) ==
    LET got == fetch_html(resp)
        known == KNOWN_ADDRESSES(club_name)
        structural == FirstFound(got.page.address_elems)
        selected == IF structural.found THEN structural.text ELSE known
        address ==
            IF selected = "NAN" /\ got.page.text_address.found
            THEN got.page.text_address.text
            ELSE selected
    IN  [name |-> club_name,
         address |-> IF got.soup THEN address ELSE known,
         club_url |-> club_url]

\* "/club/" in club_url
HasClubPath(url) == \E n \in 1..(Len(url) - 1) : url[n] = "club"

RECURSIVE FirstHref(_)
\* The first anchor found that has an href.
FirstHref(links) ==
    IF links = <<>>
    THEN NoLink
    ELSE IF Head(links).found /\ Head(links).form # "none"
         THEN Head(links)
         ELSE FirstHref(Tail(links))

\* get_fuel_link, given the response to its request: <<>> stands for None.
get_fuel_link(resp, club_url) ==
    LET got == fetch_html(resp)
        link == FirstHref(got.page.fuel_links)
    IN  IF got.soup /\ link.found
        THEN link.path
        ELSE IF HasClubPath(club_url)
             THEN Append(club_url, "fuel-center")
             ELSE <<>>

\* The rows of the primary cards: a card lacking either element raises and is
\* skipped, a card with an empty text is not appended.
PrimaryRows(cards) ==
    LET good == SelectSeq(cards, LAMBDA card :
                    /\ card.fuel.found /\ card.price.found
                    /\ card.fuel.text # "" /\ card.price.text # <<>>)
    IN  [n \in 1..Len(good) |-> <<good[n].fuel.text, good[n].price.text>>]

RECURSIVE FirstFamily(_)
\* The cards of the first fallback selector that selects any.
FirstFamily(families) ==
    IF families = <<>>
    THEN <<>>
    ELSE IF Head(families) # <<>> THEN Head(families) ELSE FirstFamily(Tail(families))

\* Mutant: the text is scanned whatever the fallback cards gave.
get_gas_prices_fallback_Scan(page) ==
    LET cards == FirstFamily(page.fallback)
        fuel_type(card) == IF card.fuel.found THEN card.fuel.text ELSE "Unknown"
        price(card) == IF card.price.found THEN card.price.text ELSE NAN
        good == SelectSeq(cards, LAMBDA card :
                    fuel_type(card) # "" /\ price(card) # <<>> /\ price(card) # NAN)
    IN  [n \in 1..Len(good) |-> <<fuel_type(good[n]), price(good[n])>>]
           \o [n \in 1..Len(page.text_prices) |-> <<"Unknown", page.text_prices[n]>>]

\* get_gas_prices_fallback
get_gas_prices_fallback(page) ==
    LET cards == FirstFamily(page.fallback)
        fuel_type(card) == IF card.fuel.found THEN card.fuel.text ELSE "Unknown"
        price(card) == IF card.price.found THEN card.price.text ELSE NAN
        good == SelectSeq(cards, LAMBDA card :
                    fuel_type(card) # "" /\ price(card) # <<>> /\ price(card) # NAN)
        prices == [n \in 1..Len(good) |-> <<fuel_type(good[n]), price(good[n])>>]
    IN  IF prices # <<>>
        THEN prices
        ELSE [n \in 1..Len(page.text_prices) |-> <<"Unknown", page.text_prices[n]>>]

\* Mutant: a failed request is reported like a document without prices.
get_gas_prices_Silent(resp) ==
    IF resp.kind # "ok"
    THEN << <<"No prices found", NAN>> >>
    ELSE LET primary == PrimaryRows(resp.page.cards)
             prices == IF primary # <<>> THEN primary
                       ELSE get_gas_prices_fallback(resp.page)
         IN  IF prices # <<>> THEN prices ELSE << <<"No prices found", NAN>> >>

\* Mutant: get_gas_prices returns what the strategies extracted, rows or none.
get_gas_prices_Bare(resp) ==
    IF resp.kind # "ok"
    THEN << <<"Error", resp.error>> >>
    ELSE LET primary == PrimaryRows(resp.page.cards)
         IN  IF primary # <<>> THEN primary ELSE get_gas_prices_fallback(resp.page)

\* get_gas_prices, given the response to its request: a failure of the request
\* is an exception e, and resp.error is str(e).
get_gas_prices(resp) ==
    IF resp.kind # "ok"
    THEN << <<"Error", resp.error>> >>
    ELSE LET primary == PrimaryRows(resp.page.cards)
             prices == IF primary # <<>> THEN primary
                       ELSE get_gas_prices_fallback(resp.page)
         IN  IF prices # <<>> THEN prices ELSE << <<"No prices found", NAN>> >>

(***************************************************************************)
(* Aggregation.                                                            *)
(***************************************************************************)
Digits == <<"0", "1", "2", "3", "4", "5", "6", "7", "8", "9">>

IsDigit(c) == \E d \in 1..10 : Digits[d] = c

DigitValue(c) == (CHOOSE d \in 1..10 : Digits[d] = c) - 1

RECURSIVE DigitsValue(_)
DigitsValue(s) ==
    IF s = <<>> THEN 0 ELSE 10 * DigitsValue(SubSeq(s, 1, Len(s) - 1)) + DigitValue(s[Len(s)])

RECURSIVE Pow10(_)
Pow10(n) == IF n = 0 THEN 1 ELSE 10 * Pow10(n - 1)

\* price.replace('$', '').replace(',', '')
StripPrice(price) == SelectSeq(price, LAMBDA c : c # "$" /\ c # ",")

\* float(s) for a string of digits, "." and letters: the number as num/den,
\* nan for "nan" in any case, and ok = FALSE where float raises ValueError.
ParseFloat(s) ==
    LET dots == {n \in 1..Len(s) : s[n] = "."}
        dot == IF dots = {} THEN Len(s) + 1 ELSE CHOOSE n \in dots : \A m \in dots : n <= m
        whole == SubSeq(s, 1, dot - 1)
        frac == SubSeq(s, dot + 1, Len(s))
        number == /\ \A n \in 1..Len(whole) : IsDigit(whole[n])
                  /\ \A n \in 1..Len(frac) : IsDigit(frac[n])
                  /\ Len(whole) + Len(frac) > 0
        nan == /\ Len(s) = 3
               /\ s[1] \in {"N", "n"} /\ s[2] \in {"A", "a"} /\ s[3] \in {"N", "n"}
    IN  IF number
        THEN [ok |-> TRUE, nan |-> FALSE,
              num |-> DigitsValue(whole \o frac), den |-> Pow10(Len(frac))]
        ELSE [ok |-> nan, nan |-> nan, num |-> 0, den |-> 1]

\* a < b on floats: every comparison with nan is false.
FloatLess(a, b) == ~a.nan /\ ~b.nan /\ a.num * b.den < b.num * a.den

\* The categories identify_lowest_prices leaves out.
LowestSkipped == {"Error", "No prices found", "Unknown", "No prices available"}

\* One row of one club in identify_lowest_prices.
LowestStep(price_categories, club, row) ==
    LET fuel_type == row[1]
        price_value == ParseFloat(StripPrice(row[2]))
        entry == [price |-> price_value, club |-> club.name, address |-> club.address]
    IN  IF fuel_type \in LowestSkipped \/ ~price_value.ok
        THEN price_categories
        ELSE IF fuel_type \notin DOMAIN price_categories
             THEN price_categories @@ (fuel_type :> entry)
             ELSE IF FloatLess(price_value, price_categories[fuel_type].price)
                  THEN [price_categories EXCEPT ![fuel_type] = entry]
                  ELSE price_categories

RECURSIVE LowestOverRows(_, _, _)
LowestOverRows(price_categories, club, rows) ==
    IF rows = <<>>
    THEN price_categories
    ELSE LowestOverRows(LowestStep(price_categories, club, Head(rows)), club, Tail(rows))

RECURSIVE LowestOverClubs(_, _)
LowestOverClubs(price_categories, clubs_data) ==
    IF clubs_data = <<>>
    THEN price_categories
    ELSE LowestOverClubs(
             LowestOverRows(price_categories, Head(clubs_data), Head(clubs_data).prices),
             Tail(clubs_data))

\* identify_lowest_prices: fuel_type -> [price, club, address].
identify_lowest_prices(clubs_data) == LowestOverClubs(<<>>, clubs_data)

RECURSIVE PyMin(_, _)
\* min(prices): the first of the smallest, by "<".
PyMin(best, rest) ==
    IF rest = <<>>
    THEN best
    ELSE PyMin(IF FloatLess(Head(rest), best) THEN Head(rest) ELSE best, Tail(rest))

RECURSIVE PyMax(_, _)
\* max(prices): the first of the largest, by ">".
PyMax(best, rest) ==
    IF rest = <<>>
    THEN best
    ELSE PyMax(IF FloatLess(best, Head(rest)) THEN Head(rest) ELSE best, Tail(rest))

RECURSIVE FloatSum(_)
\* sum(prices), as a fraction: nan as soon as one term is.
FloatSum(prices) ==
    IF prices = <<>>
    THEN [ok |-> TRUE, nan |-> FALSE, num |-> 0, den |-> 1]
    ELSE LET a == Head(prices)
             b == FloatSum(Tail(prices))
         IN  IF a.den = b.den
             THEN [ok |-> TRUE, nan |-> a.nan \/ b.nan,
                   num |-> a.num + b.num, den |-> a.den]
             ELSE [ok |-> TRUE, nan |-> a.nan \/ b.nan,
                   num |-> a.num * b.den + b.num * a.den, den |-> a.den * b.den]

\* sum(prices) / len(prices)
FloatMean(prices) ==
    LET total == FloatSum(prices)
    IN  [total EXCEPT !.den = @ * Len(prices)]

\* The entry of get_price_trends for the prices float() accepted.
TrendEntry(prices) ==
    [current |-> prices[1],
     lowest |-> PyMin(prices[1], Tail(prices)),
     highest |-> PyMax(prices[1], Tail(prices)),
     average |-> FloatMean(prices),
     data_points |-> Len(prices)]

\* The prices of the rows fuel_data that float() accepts.
ParsedPrices(fuel_data) ==
    SelectSeq([n \in 1..Len(fuel_data) |-> ParseFloat(StripPrice(fuel_data[n].price))],
              LAMBDA value : value.ok)

\* The loop of get_price_trends over the fuel types of df.
TrendsOf(df) ==
    LET fuel_data(fuel_type) == SelectSeq(df, LAMBDA row : row.fuel_type = fuel_type)
        reported == {fuel_type \in {df[n].fuel_type : n \in 1..Len(df)} :
                        /\ Len(fuel_data(fuel_type)) > 1
                        /\ ParsedPrices(fuel_data(fuel_type)) # <<>>}
    IN  [fuel_type \in reported |-> TrendEntry(ParsedPrices(fuel_data(fuel_type)))]

\* get_price_trends: fuel_type -> [current, lowest, highest, average,
\* data_points], for the fuel types with more than one row in the window.
get_price_trends(club_name, days, utc_today, tie) ==
    TrendsOf(get_price_history(club_name, days, utc_today, tie))

(***************************************************************************)
(* What the outside world supplies: the responses of the site and the      *)
(* arguments of the manual calls.                                          *)
(***************************************************************************)
Price310 == <<"$", "3", ".", "1", "0">>

Price299 == <<"$", "2", ".", "9", "9">>

Price399 == <<"$", "3", ".", "9", "9">>

Card(fuel, price) == [fuel |-> fuel, price |-> price]

TimedOut == Failed("timeout", <<"Read timed out.">>)

Refused == Failed("connection", <<"Connection refused">>)

NotFound == Failed("status", <<"404 Client Error: Not Found">>)

ClubPage ==
    [EmptyPage EXCEPT !.address_elems[1] = Elem("1225 N Dysart Rd, AZ 85323")]

TwoCardPage ==
    [EmptyPage EXCEPT !.cards = <<Card(Elem("Regular"), Elem(Price310)),
                                  Card(Elem("Premium"), Elem(Price399))>>]

OneCardPage ==
    [EmptyPage EXCEPT !.cards = <<Card(Elem("Regular"), Elem(Price299))>>]

UnlabelledPage ==
    [EmptyPage EXCEPT !.fallback[2] = <<Card(NoElem, Elem(Price310))>>]

\* The first club meets every kind of price answer, the others one failure and
\* one success; the first club's page is read, the others' is not.
ClubResponses(name) ==
    IF name = all_locations[1] THEN {Ok(ClubPage)} ELSE {TimedOut}

LinkResponses(name) == {TimedOut, Ok(ClubPage)}

PriceResponses(name) ==
    IF name = all_locations[1]
    THEN {TimedOut, Refused, NotFound,
          Ok(EmptyPage), Ok(TwoCardPage), Ok(UnlabelledPage)}
    ELSE {TimedOut, Ok(OneCardPage)}

ManualClubs == {all_locations[1]}

ManualFuelTypes == {"Regular"}

ManualPrices == {Price299}

(***************************************************************************)
(* The state after construction: no database yet, no process.              *)
(***************************************************************************)
Init ==
    /\ today = 1
    /\ now = 0
    /\ clubs = <<>>
    /\ price_history = <<>>
    /\ scraping_log = <<>>
    /\ pc = "idle"
    /\ idx = 1
    /\ locals = NoLocals
    /\ all_clubs = <<>>
    /\ started = 0
    /\ completed = {}
    /\ fetches = [c \in ClubSet, d \in Days |-> 0]
    /\ events = 0
    /\ interrupts = 0
    /\ call = NoCall

(***************************************************************************)
(* The clock.                                                              *)
(***************************************************************************)
\* The time of day is followed between runs only: it matters through the order
\* of one club's rows, and a run writes each club once.
Tick ==
    /\ pc = "idle"
    /\ events < MaxEvents
    /\ events' = events + 1
    /\ now' = now + 1
    /\ UNCHANGED <<today, store, proc, completed, fetches, interrupts, call>>

Midnight ==
    /\ events < MaxEvents
    /\ events' = events + 1
    /\ today' = today + 1
    /\ now' = 0
    /\ UNCHANGED <<store, proc, completed, fetches, interrupts, call>>

(***************************************************************************)
(* main: init_database creates the tables if they are absent and writes no *)
(* row; then check_if_all_scraped_today, one check_if_scraped_today per     *)
(* club.                                                                   *)
(***************************************************************************)
StartMain ==
    /\ pc = "idle"
    /\ pc' = "check_all"
    /\ idx' = 1
    /\ started' = today
    /\ UNCHANGED <<clock, store, locals, all_clubs, history>>

\* A direct call of scrape_all_clubs.
StartScrape ==
    /\ pc = "idle"
    /\ pc' = "loop"
    /\ idx' = 1
    /\ started' = today
    /\ UNCHANGED <<clock, store, locals, all_clubs, history>>

\* Mutant: the batch is taken as scraped as soon as one club is.
CheckAllScraped_Any ==
    /\ pc = "check_all"
    /\ IF check_if_scraped_today(all_locations[idx])
       THEN pc' = "show" /\ idx' = 1
       ELSE IF idx = total_clubs
            THEN pc' = "loop" /\ idx' = 1
            ELSE pc' = "check_all" /\ idx' = idx + 1
    /\ UNCHANGED <<clock, store, locals, all_clubs, started, history>>

\* One iteration of check_if_all_scraped_today, and main's branch on its result.
CheckAllScraped ==
    /\ pc = "check_all"
    /\ IF ~check_if_scraped_today(all_locations[idx])
       THEN pc' = "loop" /\ idx' = 1
       ELSE IF idx = total_clubs
            THEN pc' = "show" /\ idx' = 1
            ELSE pc' = "check_all" /\ idx' = idx + 1
    /\ UNCHANGED <<clock, store, locals, all_clubs, started, history>>

\* The rows show_todays_data prints: df = get_price_history(days=1), every row
\* of it with its club, fuel type, price and time.
show_todays_data(utc_today, tie) == get_price_history("", 1, utc_today, tie)

\* show_todays_data and main's return.
ShowTodaysData ==
    /\ pc = "show"
    /\ pc' = "idle"
    /\ started' = 0
    /\ UNCHANGED <<clock, store, idx, locals, all_clubs, history>>

(***************************************************************************)
(* scrape_all_clubs, one club per iteration.                               *)
(***************************************************************************)
\* Mutant: the cached path hands on an empty list as it is.
CachedResult_NoSentinel(name, tie) ==
    [name |-> name,
     address |-> KNOWN_ADDRESSES(name),
     club_url |-> ClubUrl(name),
     fuel_url |-> <<"Cached data">>,
     prices |-> get_latest_prices(name, tie)]

\* The result of the cached path.
CachedResult(name, tie) ==
    LET latest == get_latest_prices(name, tie)
    IN  [name |-> name,
         address |-> KNOWN_ADDRESSES(name),
         club_url |-> ClubUrl(name),
         fuel_url |-> <<"Cached data">>,
         prices |-> IF latest # <<>> THEN latest
                    ELSE << <<"No cached prices", NAN>> >>]

\* Mutant: the cached path records an attempt of its own.
CheckClub_Logged ==
    /\ pc = "loop"
    /\ idx <= total_clubs
    /\ IF check_if_scraped_today(all_locations[idx])
       THEN /\ \E tie \in TieOrders :
                 all_clubs' = Append(all_clubs,
                     [name |-> all_locations[idx],
                      address |-> KNOWN_ADDRESSES(all_locations[idx]),
                      club_url |-> ClubUrl(all_locations[idx]),
                      fuel_url |-> <<"Cached data">>,
                      prices |-> get_latest_prices(all_locations[idx], tie)])
            /\ scraping_log' = log_scraping_attempt(all_locations[idx], TRUE, "None", 0)
            /\ idx' = idx + 1
            /\ pc' = "loop"
            /\ UNCHANGED locals
       ELSE /\ pc' = "fetch"
            /\ locals' = [set |-> FALSE, checked |-> get_today_date]
            /\ UNCHANGED <<idx, all_clubs, scraping_log>>
    /\ UNCHANGED <<clock, clubs, price_history, started, history>>

\* The head of the loop body: check_if_scraped_today and the cached path.
CheckClub ==
    /\ pc = "loop"
    /\ idx <= total_clubs
    /\ IF check_if_scraped_today(all_locations[idx])
       THEN /\ \E tie \in TieOrders :
                 all_clubs' = Append(all_clubs, CachedResult(all_locations[idx], tie))
            /\ idx' = idx + 1
            /\ pc' = "loop"
            /\ UNCHANGED locals
       ELSE /\ pc' = "fetch"
            /\ locals' = [set |-> FALSE, checked |-> get_today_date]
            /\ UNCHANGED <<idx, all_clubs>>
    /\ UNCHANGED <<clock, store, started, history>>

\* Mutant: any row counts as a price.
ValidPrices_AnyRow(prices) == prices # <<>>

\* if prices and not (len(prices) == 1 and prices[0][0] in [...])
ValidPrices(prices) ==
    /\ prices # <<>>
    /\ ~(Len(prices) = 1 /\ prices[1][1] \in {"Error", "No prices found"})

\* Mutant: a failed attempt never looks for cached prices.
Scraped_NoFallback(name, url, club_resp, link_resp, price_resp, tie) ==
    LET club_info == get_club_info(club_resp, url, name)
        fuel_url == get_fuel_link(link_resp, url)
        prices == get_gas_prices(price_resp)
    IN  [set |-> TRUE,
         price_url |-> IF fuel_url # <<>> /\ fuel_url # <<"No Fuel Center">>
                       THEN fuel_url
                       ELSE url,
         checked |-> locals.checked,
         response |-> [kind |-> price_resp.kind, error |-> price_resp.error],
         extracted |-> prices,
         club_info |-> [name |-> club_info.name,
                        address |-> club_info.address,
                        club_url |-> club_info.club_url,
                        fuel_url |-> IF fuel_url # <<>> THEN fuel_url
                                     ELSE <<"No Fuel Center">>],
         success |-> ValidPrices(prices),
         error_message |-> IF ValidPrices(prices) THEN "None"
                           ELSE "No valid prices found",
         prices_found |-> IF ValidPrices(prices) THEN Len(prices) ELSE 0,
         prices |-> IF ValidPrices(prices) THEN prices
                    ELSE << <<"No prices available", NAN>> >>]

\* The locals after the three requests and the classification of their result:
\* price_resp is the response to the request of price_url.
Scraped(name, url, club_resp, link_resp, price_resp, tie) ==
    LET club_info == get_club_info(club_resp, url, name)
        fuel_url == get_fuel_link(link_resp, url)
        price_url == IF fuel_url # <<>> /\ fuel_url # <<"No Fuel Center">>
                     THEN fuel_url
                     ELSE url
        prices == get_gas_prices(price_resp)
        cached_prices == get_latest_prices(name, tie)
    IN  [set |-> TRUE,
         price_url |-> price_url,
         checked |-> locals.checked,
         response |-> [kind |-> price_resp.kind, error |-> price_resp.error],
         extracted |-> prices,
         club_info |-> [name |-> club_info.name,
                        address |-> club_info.address,
                        club_url |-> club_info.club_url,
                        fuel_url |-> IF fuel_url # <<>> THEN fuel_url
                                     ELSE <<"No Fuel Center">>],
         success |-> ValidPrices(prices),
         error_message |-> IF ValidPrices(prices) THEN "None"
                           ELSE "No valid prices found",
         prices_found |-> IF ValidPrices(prices) THEN Len(prices) ELSE 0,
         prices |-> IF ValidPrices(prices) THEN prices
                    ELSE IF cached_prices # <<>> THEN cached_prices
                         ELSE << <<"No prices available", NAN>> >>]

RECURSIVE FetchesOf(_, _)
\* The fetches of a club on the dates 1..date.
FetchesOf(club, date) ==
    IF date = 0 THEN 0 ELSE fetches[club, date] + FetchesOf(club, date - 1)

AllFetchesOf(club) == FetchesOf(club, MaxEvents + 1)

RECURSIVE FetchesOfClubs(_)
\* The fetches of the first n clubs.
FetchesOfClubs(n) ==
    IF n = 0 THEN 0 ELSE AllFetchesOf(all_locations[n]) + FetchesOfClubs(n - 1)

TotalFetches == FetchesOfClubs(total_clubs)

\* get_club_info, get_fuel_link, get_gas_prices and the check of their result.
Fetch ==
    /\ pc = "fetch"
    /\ TotalFetches < MaxFetches
    /\ \E club_resp \in ClubResponses(all_locations[idx]),
          link_resp \in LinkResponses(all_locations[idx]),
          price_resp \in PriceResponses(all_locations[idx]), tie \in TieOrders :
          locals' = Scraped(all_locations[idx], ClubUrl(all_locations[idx]),
                            club_resp, link_resp, price_resp, tie)
    /\ fetches' = [fetches EXCEPT ![all_locations[idx], today] = @ + 1]
    /\ pc' = "log"
    /\ UNCHANGED <<clock, store, idx, all_clubs, started, completed, events, interrupts,
                   call>>

LogAttempt ==
    /\ pc = "log"
    /\ scraping_log' = log_scraping_attempt(locals.club_info.name, locals.success,
                                            locals.error_message, locals.prices_found)
    /\ pc' = "save_info"
    /\ UNCHANGED <<clock, clubs, price_history, idx, locals, all_clubs, started, history>>

SaveClubInfo ==
    /\ pc = "save_info"
    /\ clubs' = save_club_info(locals.club_info)
    /\ pc' = "save_prices"
    /\ UNCHANGED <<clock, price_history, scraping_log, idx, locals, all_clubs,
                   started, history>>

\* Mutant: a club whose attempt failed is left out of the results.
SavePriceData_DropFailed ==
    /\ pc = "save_prices"
    /\ price_history' = save_price_data(locals.club_info.name, locals.prices)
    /\ all_clubs' = IF locals.success
                    THEN Append(all_clubs,
                                [name |-> locals.club_info.name,
                                 address |-> locals.club_info.address,
                                 club_url |-> locals.club_info.club_url,
                                 fuel_url |-> locals.club_info.fuel_url,
                                 prices |-> locals.prices])
                    ELSE all_clubs
    /\ idx' = idx + 1
    /\ locals' = NoLocals
    /\ pc' = "loop"
    /\ UNCHANGED <<clock, clubs, scraping_log, started, history>>

\* save_price_data, and the end of the loop body.
SavePriceData ==
    /\ pc = "save_prices"
    /\ price_history' = save_price_data(locals.club_info.name, locals.prices)
    /\ all_clubs' = Append(all_clubs,
                           [name |-> locals.club_info.name,
                            address |-> locals.club_info.address,
                            club_url |-> locals.club_info.club_url,
                            fuel_url |-> locals.club_info.fuel_url,
                            prices |-> locals.prices])
    /\ idx' = idx + 1
    /\ locals' = NoLocals
    /\ pc' = "loop"
    /\ UNCHANGED <<clock, clubs, scraping_log, started, history>>

\* scrape_all_clubs returns all_clubs; main reports it and ends.
Return ==
    /\ pc = "loop"
    /\ idx > total_clubs
    /\ pc' = "idle"
    /\ idx' = 1
    /\ all_clubs' = <<>>
    /\ started' = 0
    /\ completed' = IF started = today THEN completed \cup {today} ELSE completed
    /\ UNCHANGED <<clock, store, locals, fetches, events, interrupts, call>>

\* Mutant: the termination undoes the AttemptRecords of the run.
Interrupt_Rollback ==
    /\ pc # "idle"
    /\ events < MaxEvents
    /\ events' = events + 1
    /\ interrupts' = interrupts + 1
    /\ pc' = "idle"
    /\ idx' = 1
    /\ locals' = NoLocals
    /\ all_clubs' = <<>>
    /\ started' = 0
    /\ scraping_log' = SelectSeq(scraping_log, LAMBDA row : row.scraped_date < started)
    /\ UNCHANGED <<clock, clubs, price_history, completed, fetches, call>>

\* The process is terminated: what it committed stays, the rest is lost.
Interrupt ==
    /\ pc # "idle"
    /\ events < MaxEvents
    /\ events' = events + 1
    /\ interrupts' = interrupts + 1
    /\ pc' = "idle"
    /\ idx' = 1
    /\ locals' = NoLocals
    /\ all_clubs' = <<>>
    /\ started' = 0
    /\ UNCHANGED <<clock, store, completed, fetches, call>>

\* add_manual_prices, called while no run is under way.
AddManualPrices ==
    /\ pc = "idle"
    /\ events < MaxEvents
    /\ events' = events + 1
    /\ \E club_name \in ManualClubs, fuel_type \in ManualFuelTypes, price \in ManualPrices :
          price_history' = add_manual_prices(club_name, fuel_type, price)
    /\ UNCHANGED <<clock, clubs, scraping_log, proc, completed, fetches, interrupts,
                   call>>

Next ==
    \/ Tick
    \/ Midnight
    \/ StartMain
    \/ StartScrape
    \/ CheckAllScraped
    \/ ShowTodaysData
    \/ CheckClub
    \/ Fetch
    \/ LogAttempt
    \/ SaveClubInfo
    \/ SavePriceData
    \/ Return
    \/ Interrupt
    \/ AddManualPrices

Spec == Init /\ [][Next]_vars

(***************************************************************************)
(* The store under direct calls: a caller other than the orchestrator      *)
(* applies save_price_data, add_manual_prices and save_club_info to        *)
(* arguments of its own, and time passes between the calls.                *)
(***************************************************************************)
Unparseable == <<"N", "/", "A">>

\* One row of every category the program knows, real ones and placeholders.
MixedRows ==
    << <<"Regular", Price310>>,
       <<"Error", <<"Read timed out.">>>>,
       <<"No prices found", NAN>>,
       <<"No cached prices", NAN>>,
       <<"No prices available", NAN>>,
       <<"Unknown", Price299>>,
       <<"Premium", Price399>> >>

\* As many rows as get_latest_prices reads, of two fuel types.
FullRead ==
    [n \in 1..LatestLimit |->
        <<IF n % 2 = 1 THEN "Premium" ELSE "Diesel", Price399>>]

\* <<club_name, prices>> of the calls of save_price_data.
DirectSaves ==
    {<<all_locations[1], <<>>>>,
     <<all_locations[1], FullRead>>,
     <<all_locations[1], MixedRows>>,
     <<all_locations[1], << <<"No cached prices", NAN>> >>>>,
     <<all_locations[1], << <<"Regular", Price299>>, <<"Regular", Price310>> >>>>,
     <<all_locations[1], << <<"Regular", Unparseable>> >>>>,
     <<all_locations[1], << <<"Regular", NAN>> >>>>,
     <<all_locations[2], << <<"Regular", Price299>> >>>>}

\* <<club_name, fuel_type, price>> of the calls of add_manual_prices.
DirectManuals ==
    {<<all_locations[1], "Regular", Price399>>,
     <<all_locations[1], "Unknown", Price310>>}

\* The club_info of the calls of save_club_info.
DirectProfiles ==
    {[name |-> all_locations[1],
      address |-> KNOWN_ADDRESSES(all_locations[1]),
      club_url |-> ClubUrl(all_locations[1]),
      fuel_url |-> <<"No Fuel Center">>],
     [name |-> all_locations[1],
      address |-> "1225 N Dysart Rd, AZ 85323",
      club_url |-> ClubUrl(all_locations[1]),
      fuel_url |-> Append(ClubUrl(all_locations[1]), "fuel-center")],
     [name |-> all_locations[2],
      address |-> KNOWN_ADDRESSES(all_locations[2]),
      club_url |-> ClubUrl(all_locations[2]),
      fuel_url |-> <<"No Fuel Center">>]}

\* Time passes after a direct call: some seconds, or midnight.
Elapse ==
    /\ call.op # "none"
    /\ ~call.elapsed
    /\ call.n < MaxCalls
    /\ \/ today' = today /\ now' = now + 1
       \/ today' = today + 1 /\ now' = 0
    /\ call' = [call EXCEPT !.elapsed = TRUE]
    /\ UNCHANGED <<store, proc, completed, fetches, events, interrupts>>

CallSavePriceData ==
    /\ call.n < MaxCalls
    /\ \E input \in DirectSaves :
          /\ price_history' = save_price_data(input[1], input[2])
          /\ call' = [op |-> "save_price_data", n |-> call.n + 1, elapsed |-> FALSE,
                      club_name |-> input[1], prices |-> input[2],
                      rows_before |-> Len(price_history)]
    /\ UNCHANGED <<clock, clubs, scraping_log, proc, completed, fetches, events,
                   interrupts>>

CallAddManualPrices ==
    /\ call.n < MaxCalls
    /\ \E input \in DirectManuals :
          /\ price_history' = add_manual_prices(input[1], input[2], input[3])
          /\ call' = [op |-> "add_manual_prices", n |-> call.n + 1, elapsed |-> FALSE,
                      club_name |-> input[1], fuel_type |-> input[2],
                      price |-> input[3]]
    /\ UNCHANGED <<clock, clubs, scraping_log, proc, completed, fetches, events,
                   interrupts>>

CallSaveClubInfo ==
    /\ call.n < MaxCalls
    /\ \E club_info \in DirectProfiles :
          /\ clubs' = save_club_info(club_info)
          /\ call' = [op |-> "save_club_info", n |-> call.n + 1, elapsed |-> FALSE,
                      club_info |-> club_info]
    /\ UNCHANGED <<clock, price_history, scraping_log, proc, completed, fetches,
                   events, interrupts>>

StoreNext ==
    \/ Elapse
    \/ CallSavePriceData
    \/ CallAddManualPrices
    \/ CallSaveClubInfo

StoreSpec == Init /\ [][StoreNext]_vars

(***************************************************************************)
(* The functions that read no state, each applied once to an argument      *)
(* drawn when the call is made.                                            *)
(***************************************************************************)
Price1000 == <<"$", "1", ",", "0", "0", "0", ".", "0", "0">>

\* The price lists of the results handed to identify_lowest_prices.
BatchRows ==
    {<<>>,
     << <<"Regular", Price310>>, <<"Premium", Price399>> >>,
     << <<"Regular", Price310>> >>,
     << <<"Regular", Price299>>, <<"Premium", Price1000>> >>,
     << <<"Regular", NAN>> >>,
     << <<"Regular", Unparseable>>, <<"Premium", Price399>> >>,
     << <<"No cached prices", NAN>> >>,
     << <<"No prices available", NAN>> >>,
     << <<"Error", <<"Read timed out.">>>> >>,
     << <<"Unknown", Price299>>, <<"No prices found", NAN>> >>}

ClubResult(n, prices) ==
    [name |-> all_locations[n],
     address |-> KNOWN_ADDRESSES(all_locations[n]),
     prices |-> prices]

\* The batches: results of the first club, or of both clubs in order.
Batches ==
    {<<ClubResult(1, first)>> : first \in BatchRows}
       \cup {<<ClubResult(1, first), ClubResult(2, second)>> :
                first \in BatchRows, second \in BatchRows}

\* A primary card without its price element: the first fallback selector
\* selects the same div.
BrokenCardPage ==
    [EmptyPage EXCEPT !.cards = <<Card(Elem("Regular"), NoElem)>>,
                      !.fallback[1] = <<Card(Elem("Regular"), NoElem)>>]

\* A primary card whose price text is empty: the first fallback selector
\* selects the same div, and the second, which would find a price, is not tried.
EmptyTextPage ==
    [EmptyPage EXCEPT !.cards = <<Card(Elem("Regular"), Elem(<<>>))>>,
                      !.fallback[1] = <<Card(Elem("Regular"), Elem(<<>>))>>,
                      !.fallback[2] = <<Card(Elem("Premium"), Elem(Price399))>>]

\* No card anywhere, two prices in the text.
TextOnlyPage ==
    [EmptyPage EXCEPT !.text_prices = <<Price310, Price299>>]

\* A bot-protection page: get_gas_prices parses it like any other.
BotPage == [EmptyPage EXCEPT !.bot = TRUE]

\* Primary cards, other cards under a fallback selector, prices in the text.
FullPage ==
    [TwoCardPage EXCEPT !.fallback[2] = <<Card(Elem("Diesel"), Elem(Price299))>>,
                        !.text_prices = <<Price310, Price399, Price299>>]

\* No primary card; the second fallback selector selects a card without label
\* and a labelled one, the fourth another card; prices in the text.
FallbackPage ==
    [EmptyPage EXCEPT !.fallback[2] = <<Card(NoElem, Elem(Price310)),
                                        Card(Elem("Premium"), Elem(Price399))>>,
                      !.fallback[4] = <<Card(Elem("Diesel"), Elem(Price299))>>,
                      !.text_prices = <<Price310, Price399, Price299>>]

\* The responses handed to get_gas_prices.
DirectResponses ==
    {TimedOut, Refused, NotFound, Ok(FullPage), Ok(FallbackPage),
     Ok(EmptyPage), Ok(BotPage), Ok(TwoCardPage), Ok(OneCardPage), Ok(UnlabelledPage),
     Ok(BrokenCardPage), Ok(EmptyTextPage), Ok(TextOnlyPage)}

\* No address element, a "City, ST ZIP" token in the text.
TextAddressPage ==
    [EmptyPage EXCEPT !.text_address = Elem("Avondale, AZ 85323")]

\* An address element and a token in the text.
BothAddressPage ==
    [ClubPage EXCEPT !.text_address = Elem("Avondale, AZ 85323")]

\* A club added by add_new_club: KNOWN_ADDRESSES has no entry for it.
NewClub == "Mesa"

NewClubUrl == <<"club", "4955-mesa-az">>

\* The arguments of get_club_info and the response to its request.
DirectClubReads ==
    {<<resp, club[1], club[2]>> :
        resp \in {TimedOut, NotFound, Ok(BotPage), Ok(EmptyPage), Ok(ClubPage),
                  Ok(TextAddressPage), Ok(BothAddressPage)},
        club \in {<<ClubUrl(all_locations[1]), all_locations[1]>>,
                  <<NewClubUrl, NewClub>>}}

Link(form, path) == [found |-> TRUE, form |-> form, path |-> path]

\* The first selector finds an anchor to the fuel page.
FuelLinkPage ==
    [EmptyPage EXCEPT !.fuel_links[1] =
        Link("rooted", <<"club", "4830-avondale-az", "fuel-center">>)]

\* The second selector finds an anchor, the fourth another: the third is an
\* anchor with the text "Fuel Center" and no href.
LaterLinkPage ==
    [EmptyPage EXCEPT !.fuel_links[2] = Link("bare", <<"fuel">>),
                      !.fuel_links[3] = [found |-> TRUE, form |-> "none", path |-> <<>>],
                      !.fuel_links[4] = Link("rooted", <<"fuel", "prices">>)]

\* A URL without "/club/".
LocatorUrl == <<"locator">>

\* The arguments of get_fuel_link and the response to its request.
DirectLinkReads ==
    {TimedOut, NotFound, Ok(BotPage), Ok(EmptyPage), Ok(FuelLinkPage), Ok(LaterLinkPage)}
        \X {ClubUrl(all_locations[1]), LocatorUrl}

FunctionInit ==
    /\ today = 1
    /\ now = 0
    /\ clubs = <<>>
    /\ price_history = <<>>
    /\ scraping_log = <<>>
    /\ pc = "idle"
    /\ idx = 1
    /\ locals = NoLocals
    /\ all_clubs = <<>>
    /\ started = 0
    /\ completed = {}
    /\ fetches = [c \in ClubSet, d \in Days |-> 0]
    /\ events = 0
    /\ interrupts = 0
    /\ \/ call \in {[op |-> "identify_lowest_prices", n |-> 0, clubs_data |-> batch] :
                       batch \in Batches}
       \/ call \in {[op |-> "get_gas_prices", n |-> 0, resp |-> resp] :
                       resp \in DirectResponses}
       \/ call \in {[op |-> "get_fuel_link", n |-> 0, resp |-> read[1],
                        club_url |-> read[2]] :
                       read \in DirectLinkReads}
       \/ call \in {[op |-> "get_club_info", n |-> 0, resp |-> read[1],
                        club_url |-> read[2], club_name |-> read[3]] :
                       read \in DirectClubReads}

ApplyIdentifyLowestPrices ==
    /\ call.op = "identify_lowest_prices"
    /\ call.n = 0
    /\ call' = [op |-> "identify_lowest_prices", n |-> 1,
                clubs_data |-> call.clubs_data,
                result |-> identify_lowest_prices(call.clubs_data)]
    /\ UNCHANGED <<clock, store, proc, completed, fetches, events, interrupts>>

ApplyGetGasPrices ==
    /\ call.op = "get_gas_prices"
    /\ call.n = 0
    /\ call' = [op |-> "get_gas_prices", n |-> 1,
                resp |-> call.resp,
                result |-> get_gas_prices(call.resp)]
    /\ UNCHANGED <<clock, store, proc, completed, fetches, events, interrupts>>

ApplyGetClubInfo ==
    /\ call.op = "get_club_info"
    /\ call.n = 0
    /\ call' = [op |-> "get_club_info", n |-> 1,
                resp |-> call.resp,
                club_url |-> call.club_url,
                club_name |-> call.club_name,
                result |-> get_club_info(call.resp, call.club_url, call.club_name)]
    /\ UNCHANGED <<clock, store, proc, completed, fetches, events, interrupts>>

ApplyGetFuelLink ==
    /\ call.op = "get_fuel_link"
    /\ call.n = 0
    /\ call' = [op |-> "get_fuel_link", n |-> 1,
                resp |-> call.resp,
                club_url |-> call.club_url,
                result |-> get_fuel_link(call.resp, call.club_url)]
    /\ UNCHANGED <<clock, store, proc, completed, fetches, events, interrupts>>

FunctionNext ==
    \/ ApplyIdentifyLowestPrices
    \/ ApplyGetGasPrices
    \/ ApplyGetClubInfo
    \/ ApplyGetFuelLink

FunctionSpec == FunctionInit /\ [][FunctionNext]_vars

(***************************************************************************)
(* Definitions used by the properties.                                     *)
(***************************************************************************)
\* An AttemptRecord exists for <<club, date>>.
AttemptExists(club, date) ==
    \E n \in DOMAIN scraping_log :
        scraping_log[n].club_name = club /\ scraping_log[n].scraped_date = date

AllAttempted(date) == \A club \in ClubSet : AttemptExists(club, date)

IsPrefix(s, t) == Len(s) <= Len(t) /\ SubSeq(t, 1, Len(s)) = s

\* The club the loop of scrape_all_clubs has in hand.
Current == all_locations[idx]

\* The step of CheckClub that takes the cached path.
SkipStep == pc = "loop" /\ idx <= total_clubs /\ pc' = "loop" /\ idx' = idx + 1

\* The step of CheckClub that goes on to fetch.
ScrapeStep == pc = "loop" /\ pc' = "fetch"

OnFetchPath == pc \in {"fetch", "log", "save_info", "save_prices"}

(***************************************************************************)
(* C1: for every configured location and every date, the location          *)
(* undergoes at most one real fetch attempt on that date, however many     *)
(* runs, completed or terminated, are made on it.                          *)
(***************************************************************************)
C1_AtMostOneFetchPerDay ==
    \A club \in ClubSet, date \in Days : fetches[club, date] <= 1

(***************************************************************************)
(* C2: once a whole run has been made within today, a run made today       *)
(* appends no row to price_history and sends no location to the fetch      *)
(* path: every location it processes takes the cached path (the steps of   *)
(* the clock and a termination aside).                                     *)
(***************************************************************************)
C2_SecondRunIsCached ==
    [][(today \in completed /\ pc # "idle")
          => /\ price_history' = price_history
             /\ pc' # "fetch"
             /\ (pc = "loop" /\ idx <= total_clubs /\ pc' # "idle" /\ clock' = clock
                    => SkipStep)]_vars

\* A second whole run of scrape_all_clubs today has collected its results.
C2_Witness ==
    /\ today \in completed
    /\ pc = "loop"
    /\ idx > total_clubs
    /\ Len(all_clubs) = total_clubs
    /\ price_history # <<>>

(***************************************************************************)
(* C3: once log_scraping_attempt has run for a location today,             *)
(* check_if_scraped_today of that location is true, and it stays true      *)
(* through every later step made on the same date.                         *)
(***************************************************************************)
C3_AttemptedStaysTrue ==
    [][\A club \in ClubSet :
          (/\ today' = today
           /\ \/ check_if_scraped_today(club)
              \/ pc = "log" /\ pc' = "save_info" /\ Current = club)
          => check_if_scraped_today(club)']_vars

\* The first club was logged today, and a later attempt, a profile, price rows
\* and a manual price have been written since.
C3_Witness ==
    /\ Len(scraping_log) >= 2
    /\ scraping_log[1].club_name = all_locations[1]
    /\ scraping_log[1].scraped_date = today
    /\ check_if_scraped_today(all_locations[1])
    /\ \E n \in DOMAIN price_history : price_history[n].source = "manual"
    /\ \E n \in DOMAIN price_history : price_history[n].source = "scraped"
    /\ \E n \in DOMAIN clubs : clubs[n].name = all_locations[2]

(***************************************************************************)
(* C4: the loop takes the cached path for a location exactly when an       *)
(* AttemptRecord exists for it and today, whatever the record's success    *)
(* flag.                                                                   *)
(***************************************************************************)
C4_SkipIffAttempted ==
    [][/\ SkipStep => AttemptExists(Current, today)
       /\ ScrapeStep => ~AttemptExists(Current, today)]_vars

\* A location whose only attempts today failed has been served from the cache.
C4_Witness ==
    /\ pc = "loop"
    /\ all_clubs # <<>>
    /\ LET last == all_clubs[Len(all_clubs)]
       IN  /\ last.fuel_url = <<"Cached data">>
           /\ AttemptExists(last.name, today)
           /\ \A n \in DOMAIN scraping_log :
                 (scraping_log[n].club_name = last.name
                    /\ scraping_log[n].scraped_date = today)
                 => ~scraping_log[n].success

(***************************************************************************)
(* C5 as claimed: the cached path makes no fetch, leaves the store as it   *)
(* is, and its result is exactly get_latest_prices of the location.        *)
(***************************************************************************)
C5_CachedResultIsLatest ==
    [][SkipStep
          => /\ store' = store
             /\ fetches' = fetches
             /\ \E tie \in TieOrders :
                   all_clubs'[Len(all_clubs')].prices = get_latest_prices(Current, tie)]_vars

(***************************************************************************)
(* C5 as amended: the cached path makes no fetch, leaves the store as it   *)
(* is, and its result is get_latest_prices of the location when that is    *)
(* not empty, and the single row ("No cached prices", "NAN") when it is.   *)
(***************************************************************************)
C5_CachedResultOrSentinel ==
    [][SkipStep
          => /\ store' = store
             /\ fetches' = fetches
             /\ Len(all_clubs') = Len(all_clubs) + 1
             /\ all_clubs'[Len(all_clubs')].name = Current
             /\ \E tie \in TieOrders :
                   LET latest == get_latest_prices(Current, tie)
                   IN  all_clubs'[Len(all_clubs')].prices =
                          IF latest # <<>> THEN latest
                          ELSE << <<"No cached prices", NAN>> >>]_vars

\* A run served one location from stored prices and another, which has none,
\* with the placeholder row.
C5_Witness ==
    /\ pc = "loop"
    /\ \E n \in DOMAIN all_clubs :
          /\ all_clubs[n].fuel_url = <<"Cached data">>
          /\ all_clubs[n].prices = << <<"No cached prices", NAN>> >>
    /\ \E n \in DOMAIN all_clubs :
          /\ all_clubs[n].fuel_url = <<"Cached data">>
          /\ all_clubs[n].prices[1][1] = "Regular"

(***************************************************************************)
(* C6: while every configured location has an AttemptRecord for today,     *)
(* main does not enter the loop over the locations, and its check and its  *)
(* report of stored data make no fetch and write nothing; main reports     *)
(* stored data only when every location has such a record, and otherwise   *)
(* runs scrape_all_clubs.                                                  *)
(***************************************************************************)
C6_BatchShortCircuit ==
    [][/\ (pc = "check_all" /\ AllAttempted(today) /\ today' = today) => pc' # "loop"
       /\ (pc = "check_all" /\ pc' = "show") => AllAttempted(today)
       /\ (pc = "check_all" /\ pc' = "loop") => ~AllAttempted(today)
       /\ pc \in {"check_all", "show"} => (store' = store /\ fetches' = fetches)
       /\ pc = "show" => pc' \in {"show", "idle"}]_vars

\* main found every location attempted today and is about to show stored data.
C6_Witness ==
    /\ pc = "show"
    /\ AllAttempted(today)
    /\ price_history # <<>>

(***************************************************************************)
(* C7: the success flag of the AttemptRecord of a real fetch is true       *)
(* exactly when the rows get_gas_prices returned are not empty and are not *)
(* a single row of category "Error" or "No prices found".                  *)
(***************************************************************************)
C7_SuccessIffValidRows ==
    pc \in {"save_info", "save_prices"}
       => LET record == scraping_log[Len(scraping_log)]
              rows == locals.extracted
          IN  /\ record.club_name = Current
              /\ record.success =
                    (/\ Len(rows) > 0
                     /\ ~(Len(rows) = 1 /\ rows[1][1] \in {"Error", "No prices found"}))

\* A single row that is no placeholder of a failed request was recorded as a
\* success.
C7_Witness ==
    /\ pc = "save_info"
    /\ Len(locals.extracted) = 1
    /\ locals.extracted[1][1] = "Unknown"
    /\ scraping_log[Len(scraping_log)].success

(***************************************************************************)
(* C8: every real fetch of a location that gets as far as logging appends  *)
(* exactly one AttemptRecord, of that location, whether it succeeded or    *)
(* not, and no AttemptRecord is appended any other way: a location's       *)
(* records number its fetches, less the one under way and those cut short  *)
(* by a termination before the log.                                        *)
(***************************************************************************)
Attempts(club) ==
    Cardinality({n \in DOMAIN scraping_log : scraping_log[n].club_name = club})

C8_OneAttemptPerFetch ==
    /\ \A club \in ClubSet :
          LET pending == IF pc = "log" /\ Current = club THEN 1 ELSE 0
              logged == Attempts(club) + pending
              fetched == AllFetchesOf(club)
          IN  /\ logged <= fetched
              /\ fetched <= logged + interrupts
              /\ interrupts = 0 => logged = fetched
    /\ \A n \in DOMAIN scraping_log : scraping_log[n].club_name \in ClubSet

\* A failed fetch and a successful one have each left their one record.
C8_Witness ==
    /\ pc = "save_info"
    /\ interrupts = 0
    /\ Len(scraping_log) = 2
    /\ ~scraping_log[1].success
    /\ scraping_log[2].success
    /\ \A club \in ClubSet : Attempts(club) = 1 /\ AllFetchesOf(club) = 1

(***************************************************************************)
(* C9: after a failed attempt the location's result is get_latest_prices   *)
(* of it when that is not empty and the single row ("No prices available", *)
(* "NAN") otherwise, the AttemptRecord says success = false, and a cached  *)
(* price of a real category is taken up by identify_lowest_prices.         *)
(***************************************************************************)
SentinelCategories ==
    {"Error", "No prices found", "No cached prices", "No prices available", "Unknown"}

\* The last AttemptRecord of a club.
LastAttempt(club) ==
    LET mine == {n \in DOMAIN scraping_log : scraping_log[n].club_name = club}
    IN  scraping_log[CHOOSE n \in mine : \A m \in mine : m <= n]

\* The result of a club whose fetch in this run failed.
FailedResult(result) ==
    /\ result.fuel_url # <<"Cached data">>
    /\ ~LastAttempt(result.name).success

C9_FailureFallsBack ==
    /\ (pc \in {"log", "save_info", "save_prices"} /\ ~locals.success)
          => /\ \E tie \in TieOrders :
                   LET cached == get_latest_prices(Current, tie)
                   IN  locals.prices = IF cached # <<>> THEN cached
                                       ELSE << <<"No prices available", NAN>> >>
             /\ locals.prices_found = 0
             /\ pc # "log" => /\ LastAttempt(Current) = scraping_log[Len(scraping_log)]
                              /\ ~LastAttempt(Current).success
    /\ LET lowest == identify_lowest_prices(all_clubs)
       IN  \A n \in DOMAIN all_clubs :
              FailedResult(all_clubs[n])
                 => \A k \in DOMAIN all_clubs[n].prices :
                       LET row == all_clubs[n].prices[k]
                           value == ParseFloat(StripPrice(row[2]))
                       IN  (row[1] \notin SentinelCategories /\ value.ok /\ ~value.nan)
                              => /\ row[1] \in DOMAIN lowest
                                 /\ ~FloatLess(value, lowest[row[1]].price)

\* Two locations: the first has $3.10 for Regular from an earlier date and its
\* fetch of today failed; the run's results hold the cached $3.10, and the
\* lowest Regular price is the lower one of the second location.
C9_Witness ==
    /\ pc = "loop"
    /\ idx > total_clubs
    /\ Len(all_clubs) = 2
    /\ FailedResult(all_clubs[1])
    /\ LastAttempt(all_clubs[1].name).scraped_date = today
    /\ all_clubs[1].prices[1] = <<"Regular", Price310>>
    /\ \E n \in DOMAIN price_history :
          /\ price_history[n].club_name = all_clubs[1].name
          /\ price_history[n].price = Price310
          /\ price_history[n].scraped_date < today
    /\ all_clubs[2].prices = << <<"Regular", Price299>> >>
    /\ identify_lowest_prices(all_clubs)["Regular"].club = all_clubs[2].name
    /\ identify_lowest_prices(all_clubs)["Premium"].club = all_clubs[1].name

(***************************************************************************)
(* C10: price_history and scraping_log are append-only: every step leaves  *)
(* every row that was there in its place and unchanged.                    *)
(***************************************************************************)
C10_AppendOnly ==
    [][/\ IsPrefix(price_history, price_history')
       /\ IsPrefix(scraping_log, scraping_log')]_vars

\* A price of a club and fuel type was followed by a later, different one: both
\* rows are there, in a history written by scraping and by hand.
C10_Witness ==
    /\ \E n, m \in DOMAIN price_history :
          /\ n < m
          /\ price_history[n].club_name = price_history[m].club_name
          /\ price_history[n].fuel_type = price_history[m].fuel_type
          /\ price_history[n].price # price_history[m].price
          /\ price_history[n].source = "scraped"
          /\ price_history[m].source = "manual"
    /\ Len(scraping_log) >= 2

(***************************************************************************)
(* C11: a call of save_price_data appends one Observation for each row     *)
(* whose category is no placeholder of the taxonomy ("Error", "No prices   *)
(* found", "No cached prices", "No prices available", "Unknown"), in the   *)
(* order of the rows, and none for a row whose category is one.            *)
(***************************************************************************)
C11_SaveDropsSentinels ==
    [][(call'.op = "save_price_data" /\ call'.n = call.n + 1)
          => LET kept == SelectSeq(call'.prices,
                                   LAMBDA row : row[1] \notin SentinelCategories)
             IN  price_history' = price_history \o
                    [n \in 1..Len(kept) |->
                        Observation(call'.club_name, kept[n], "scraped")]]_vars

(***************************************************************************)
(* C12: for every club, get_latest_prices returns at most one value per    *)
(* category, and the value of a category is that of a row of the club and  *)
(* the category than which none has a greater (date, time).                *)
(***************************************************************************)
\* Row n of price_history was written strictly after row m.
WrittenAfter(n, m) ==
    \/ price_history[n].scraped_date > price_history[m].scraped_date
    \/ /\ price_history[n].scraped_date = price_history[m].scraped_date
       /\ price_history[n].scraped_time > price_history[m].scraped_time

RowsOf(club, fuel_type) ==
    {n \in DOMAIN price_history :
        /\ price_history[n].club_name = club
        /\ price_history[n].fuel_type = fuel_type}

C12_LatestIsNewest ==
    \A club \in ClubSet, tie \in TieOrders :
        LET latest == get_latest_prices(club, tie)
        IN  /\ \A i, j \in DOMAIN latest : latest[i][1] = latest[j][1] => i = j
            /\ \A i \in DOMAIN latest :
                  \E n \in RowsOf(club, latest[i][1]) :
                      /\ price_history[n].price = latest[i][2]
                      /\ \A m \in RowsOf(club, latest[i][1]) : ~WrittenAfter(m, n)

\* A club has two prices of one category from the same day, and the one read
\* is the later.
C12_Witness ==
    \E n, m \in RowsOf(all_locations[1], "Regular") :
        /\ price_history[n].scraped_date = price_history[m].scraped_date
        /\ price_history[n].scraped_time < price_history[m].scraped_time
        /\ price_history[n].price # price_history[m].price
        /\ \A k \in RowsOf(all_locations[1], "Regular") : ~WrittenAfter(k, m)
        /\ \A tie \in TieOrders :
              \E i \in DOMAIN get_latest_prices(all_locations[1], tie) :
                  get_latest_prices(all_locations[1], tie)[i] =
                     <<"Regular", price_history[m].price>>

(***************************************************************************)
(* C13: identify_lowest_prices of the results a run has collected returns  *)
(* no category all of whose rows in the batch are placeholders: a row of a *)
(* placeholder category, or a row whose value is "NAN".                    *)
(***************************************************************************)
SentinelRow(row) == row[1] \in SentinelCategories \/ row[2] = NAN

C13_NoSentinelCategory ==
    \A fuel_type \in DOMAIN identify_lowest_prices(all_clubs) :
        \E n \in DOMAIN all_clubs :
            \E k \in DOMAIN all_clubs[n].prices :
                /\ all_clubs[n].prices[k][1] = fuel_type
                /\ ~SentinelRow(all_clubs[n].prices[k])

(***************************************************************************)
(* C14: get_price_trends has no entry for a placeholder category ("Error", *)
(* "No prices found", "No cached prices", "No prices available",           *)
(* "Unknown"), here for the stores that calls of add_manual_prices alone   *)
(* have written.                                                           *)
(***************************************************************************)
OnlyManual == \A n \in DOMAIN price_history : price_history[n].source = "manual"

C14_TrendsSkipSentinels ==
    OnlyManual
       => \A club_name \in {"", all_locations[1]}, utc_today \in UtcDates,
             tie \in TieOrders :
             DOMAIN get_price_trends(club_name, TrendDays, utc_today, tie)
                \cap SentinelCategories = {}

(***************************************************************************)
(* C15: for every category that is no placeholder and has a value that     *)
(* parses as a number in the batch, identify_lowest_prices reports the     *)
(* least of the category's numbers, with the name and address of the first *)
(* result, in the order of the batch, that has it.                         *)
(***************************************************************************)
\* The number a price stands for.
PriceNumber(price) == ParseFloat(StripPrice(price))

Numeric(price) == PriceNumber(price).ok /\ ~PriceNumber(price).nan

\* The <<n, k>> of the rows of a category whose value is a number.
NumericRows(clubs_data, fuel_type) ==
    {pos \in (DOMAIN clubs_data) \X (1..8) :
        /\ pos[2] \in DOMAIN clubs_data[pos[1]].prices
        /\ clubs_data[pos[1]].prices[pos[2]][1] = fuel_type
        /\ Numeric(clubs_data[pos[1]].prices[pos[2]][2])}

NumberAt(clubs_data, pos) == PriceNumber(clubs_data[pos[1]].prices[pos[2]][2])

\* The first row, in the order of the batch, that has the least number.
FirstLowest(clubs_data, fuel_type) ==
    LET rows == NumericRows(clubs_data, fuel_type)
        least == {pos \in rows :
                     \A other \in rows :
                         ~FloatLess(NumberAt(clubs_data, other), NumberAt(clubs_data, pos))}
    IN  CHOOSE pos \in least :
            \A other \in least :
                pos[1] < other[1] \/ (pos[1] = other[1] /\ pos[2] <= other[2])

C15_LowestIsMinimum ==
    (call.op = "identify_lowest_prices" /\ call.n = 1)
       => \A n \in DOMAIN call.clubs_data :
             \A k \in DOMAIN call.clubs_data[n].prices :
                 LET fuel_type == call.clubs_data[n].prices[k][1]
                 IN  (fuel_type \notin SentinelCategories
                         /\ NumericRows(call.clubs_data, fuel_type) # {})
                        => LET pos == FirstLowest(call.clubs_data, fuel_type)
                               entry == call.result[fuel_type]
                           IN  /\ fuel_type \in DOMAIN call.result
                               /\ ~entry.price.nan
                               /\ entry.price.num * NumberAt(call.clubs_data, pos).den
                                     = NumberAt(call.clubs_data, pos).num * entry.price.den
                               /\ entry.club = call.clubs_data[pos[1]].name
                               /\ entry.address = call.clubs_data[pos[1]].address

(***************************************************************************)
(* C16: for every category get_price_trends reports, current is the value  *)
(* of the newest row of the category in the window, and lowest, highest,   *)
(* average and data_points are the least, the greatest, the mean and the   *)
(* count of the category's values in the window that parse as numbers.     *)
(***************************************************************************)
FloatEqual(a, b) == ~a.nan /\ ~b.nan /\ a.num * b.den = b.num * a.den

\* The numbers of the rows of a category, in the order of the rows.
NumbersOf(df, fuel_type) ==
    LET rows == SelectSeq(df, LAMBDA row : row.fuel_type = fuel_type /\ Numeric(row.price))
    IN  [n \in 1..Len(rows) |-> PriceNumber(rows[n].price)]

C16_TrendsOfWindow ==
    \A club_name \in {"", all_locations[1]}, utc_today \in UtcDates, tie \in TieOrders :
        LET df == get_price_history(club_name, TrendDays, utc_today, tie)
            trends == get_price_trends(club_name, TrendDays, utc_today, tie)
        IN  \A fuel_type \in DOMAIN trends :
                LET newest == SelectSeq(df, LAMBDA row : row.fuel_type = fuel_type)[1]
                    numbers == NumbersOf(df, fuel_type)
                    entry == trends[fuel_type]
                IN  /\ Numeric(newest.price)
                    /\ FloatEqual(entry.current, PriceNumber(newest.price))
                    /\ numbers # <<>>
                    /\ \E n \in DOMAIN numbers : FloatEqual(entry.lowest, numbers[n])
                    /\ \A n \in DOMAIN numbers : ~FloatLess(numbers[n], entry.lowest)
                    /\ \E n \in DOMAIN numbers : FloatEqual(entry.highest, numbers[n])
                    /\ \A n \in DOMAIN numbers : ~FloatLess(entry.highest, numbers[n])
                    /\ FloatEqual(entry.average, FloatMean(numbers))
                    /\ entry.data_points = Len(numbers)

(***************************************************************************)
(* C17: get_price_history of a club over the default window of 30 days     *)
(* returns the club's rows, each once with the category, value, date and   *)
(* time it was written with, newest first; after a call of                 *)
(* save_price_data with rows of real categories it holds exactly those     *)
(* rows more, stamped with the date and time of the call.                  *)
(***************************************************************************)
Stored(n) ==
    [club_name |-> price_history[n].club_name,
     fuel_type |-> price_history[n].fuel_type,
     price |-> price_history[n].price,
     scraped_date |-> price_history[n].scraped_date,
     scraped_time |-> price_history[n].scraped_time]

Copies(seq, row) == Cardinality({n \in DOMAIN seq : seq[n] = row})

\* df is the rows mine of price_history, newest first.
IsHistoryOf(df, mine) ==
    /\ Len(df) = Cardinality(mine)
    /\ \A n \in mine :
          Copies(df, Stored(n)) = Cardinality({m \in mine : Stored(m) = Stored(n)})
    /\ \A i, j \in DOMAIN df :
          i < j => \/ df[i].scraped_date > df[j].scraped_date
                   \/ /\ df[i].scraped_date = df[j].scraped_date
                      /\ df[i].scraped_time >= df[j].scraped_time

\* The history read back is the club's rows, newest first.
ReadsBack(club) ==
    \A utc_today \in UtcDates, tie \in TieOrders :
        IsHistoryOf(get_price_history(club, HistoryDays, utc_today, tie),
                    {n \in DOMAIN price_history : price_history[n].club_name = club})

\* df is the rows old of price_history and the rows prices of the club, stamped
\* date and time.
IsAppended(df, old, club, prices, date, time) ==
    /\ Len(df) = Cardinality(old) + Len(prices)
    /\ \A k \in DOMAIN prices :
          LET row == [club_name |-> club,
                      fuel_type |-> prices[k][1],
                      price |-> prices[k][2],
                      scraped_date |-> date,
                      scraped_time |-> time]
          IN  Copies(df, row) =
                 Cardinality({n \in old : Stored(n) = row})
                    + Cardinality({j \in DOMAIN prices : prices[j] = prices[k]})

C17_RoundTrip ==
    /\ \A club \in ClubSet : ReadsBack(club)
    /\ (/\ call.op = "save_price_data"
        /\ ~call.elapsed
        /\ \A k \in DOMAIN call.prices : call.prices[k][1] \notin SentinelCategories)
       => \A utc_today \in UtcDates, tie \in TieOrders :
             IsAppended(get_price_history(call.club_name, HistoryDays, utc_today, tie),
                        {n \in 1..call.rows_before :
                            price_history[n].club_name = call.club_name},
                        call.club_name, call.prices, today, now)

\* A club's rows, all written by save_price_data with real categories on two
\* dates, are read back, the later date first.
C17_Witness ==
    LET club == all_locations[1]
        df == get_price_history(club, HistoryDays, today, "rowid_asc")
    IN  /\ call.op = "save_price_data"
        /\ call.club_name = club
        /\ Len(call.prices) = 2
        /\ Len(df) = 4
        /\ df[1].scraped_date > df[4].scraped_date
        /\ \A n \in DOMAIN price_history :
              /\ price_history[n].club_name = club
              /\ price_history[n].source = "scraped"
              /\ price_history[n].fuel_type \notin SentinelCategories

(***************************************************************************)
(* C18: save_club_info is an upsert keyed by the name.                     *)
(***************************************************************************)
ProfilesOf(table, name) == {n \in DOMAIN table : table[n].name = name}

\* C18: after any sequence of save_club_info calls the table clubs holds at
\* most one profile per name; the first call for a name inserts it, a later
\* call for the name updates address, club URL, fuel URL and last_updated and
\* leaves created_date as the first call set it, and no profile is deleted.
C18_UpsertProfile ==
    [][/\ \A n \in DOMAIN clubs : ProfilesOf(clubs', clubs[n].name) # {}
       /\ (call'.op = "save_club_info" /\ call'.n = call.n + 1) =>
             LET info == call'.club_info
                 old == ProfilesOf(clubs, info.name)
                 new == ProfilesOf(clubs', info.name)
             IN  /\ \A i, j \in DOMAIN clubs' :
                       clubs'[i].name = clubs'[j].name => i = j
                 /\ Cardinality(new) = 1
                 /\ Len(clubs') = Len(clubs) + (IF old = {} THEN 1 ELSE 0)
                 /\ \A n \in new :
                       /\ clubs'[n].address = info.address
                       /\ clubs'[n].club_url = info.club_url
                       /\ clubs'[n].fuel_url = info.fuel_url
                       /\ clubs'[n].last_updated = <<today, now>>
                       /\ IF old = {}
                          THEN clubs'[n].created_date = <<today, now>>
                          ELSE \A o \in old :
                                  clubs'[n].created_date = clubs[o].created_date
                 /\ \A n \in DOMAIN clubs :
                       clubs[n].name # info.name =>
                          \E m \in DOMAIN clubs' : clubs'[m] = clubs[n]]_vars

\* A profile that a later call has updated, some time after its insertion.
C18_Witness ==
    /\ call.op = "save_club_info"
    /\ \E n \in DOMAIN clubs :
          /\ clubs[n].name = call.club_info.name
          /\ clubs[n].address = call.club_info.address
          /\ clubs[n].last_updated = <<today, now>>
          /\ clubs[n].created_date # clubs[n].last_updated

(***************************************************************************)
(* C19: get_gas_prices always returns a row.                               *)
(***************************************************************************)
\* No strategy extracts a row of the page: no primary card with both texts, no
\* card of the first fallback family that selects any with a price, and no
\* price in the text.
NothingExtracted(page) ==
    /\ \A n \in DOMAIN page.cards :
          \/ ~page.cards[n].fuel.found \/ ~page.cards[n].price.found
          \/ page.cards[n].fuel.text = "" \/ page.cards[n].price.text = <<>>
    /\ \A k \in DOMAIN page.fallback :
          (/\ page.fallback[k] # <<>>
           /\ \A j \in 1..(k - 1) : page.fallback[j] = <<>>)
          => \A n \in DOMAIN page.fallback[k] :
                LET card == page.fallback[k][n]
                IN  \/ ~card.price.found
                    \/ card.price.text \in {<<>>, NAN}
                    \/ card.fuel.found /\ card.fuel.text = ""
    /\ page.text_prices = <<>>

\* C19: get_gas_prices returns at least one row for every outcome of the
\* request and every document, and exactly the row ("No prices found", "NAN")
\* when no extraction strategy yields a row.
C19_NeverEmpty ==
    (call.op = "get_gas_prices" /\ call.n = 1) =>
        /\ Len(call.result) >= 1
        /\ \A n \in DOMAIN call.result : Len(call.result[n]) = 2
        /\ (call.resp.kind = "ok" /\ NothingExtracted(call.resp.page))
              => call.result = << <<"No prices found", NAN>> >>
        /\ (call.resp.kind = "ok" /\ ~NothingExtracted(call.resp.page))
              => \A n \in DOMAIN call.result : call.result[n][1] # "No prices found"

\* A document with cards, none of which yields a row, has been read.
C19_Witness ==
    /\ call.op = "get_gas_prices"
    /\ call.n = 1
    /\ call.resp.kind = "ok"
    /\ call.resp.page.cards # <<>>
    /\ call.resp.page.fallback[2] # <<>>
    /\ call.result = << <<"No prices found", NAN>> >>

(***************************************************************************)
(* C20: a failed request of the price page.                                *)
(***************************************************************************)
\* The request of the price page in the current loop body failed.
FetchFailed == locals.set /\ locals.response.kind # "ok"

\* The failed request is one Error row carrying str(e), the attempt is not a
\* success, and once logged it is the last AttemptRecord, with success false.
ErrorRowAndFailedAttempt ==
    /\ FetchFailed =>
          /\ locals.extracted = << <<"Error", locals.response.error>> >>
          /\ ~locals.success
          /\ locals.prices_found = 0
    /\ (FetchFailed /\ pc \in {"save_info", "save_prices"}) =>
          /\ scraping_log # <<>>
          /\ scraping_log[Len(scraping_log)].club_name = locals.club_info.name
          /\ ~scraping_log[Len(scraping_log)].success

\* C20, as amended: when the request of the price page fails (timeout,
\* connection error, non-2xx status), get_gas_prices returns exactly one row
\* ("Error", str(e)), whose value is the message of the exception, raises
\* nothing, and the AttemptRecord logged for the club has success false.
C20_FetchErrorRow == ErrorRowAndFailedAttempt

\* C20, as stated: the same, and the row of a timeout is ("Error", "Timeout").
C20_TimeoutRow ==
    /\ ErrorRowAndFailedAttempt
    /\ (FetchFailed /\ locals.response.kind = "timeout") =>
          locals.extracted = << <<"Error", <<"Timeout">>>> >>

\* A request that timed out has been logged.
C20_Witness ==
    /\ FetchFailed
    /\ locals.response.kind = "timeout"
    /\ pc = "save_prices"
    /\ ~scraping_log[Len(scraping_log)].success

(***************************************************************************)
(* C21: a bot-protection page in place of the price page.                  *)
(***************************************************************************)
\* C21: a fetched page that contains "robot" or "captcha" is a fetch failure
\* everywhere: when the price page is such a page, get_gas_prices returns the
\* single Error row, neither the row "No prices found" nor rows of the page.
C21_BotPageIsFetchError ==
    (call.op = "get_gas_prices" /\ call.n = 1
        /\ call.resp.kind = "ok" /\ call.resp.page.bot)
    => /\ Len(call.result) = 1
       /\ call.result[1][1] = "Error"

(***************************************************************************)
(* C22: the order of the address strategies.                               *)
(***************************************************************************)
\* get_club_info has read a document in which no address selector matches.
NoStructuralAddress ==
    /\ call.op = "get_club_info"
    /\ call.n = 1
    /\ call.resp.kind = "ok"
    /\ ~call.resp.page.bot
    /\ \A k \in DOMAIN call.resp.page.address_elems :
          ~call.resp.page.address_elems[k].found

\* C22: the address strategies run in the order structural selector, scan of
\* the text, known address: when no selector matches and the text holds a
\* "City, ST ZIP" token, get_club_info returns the token whether or not the
\* club has a known address; the known address, or "NAN" without one, is
\* returned only when both find nothing.
C22_AddressStrategyOrder ==
    NoStructuralAddress =>
        call.result.address =
            IF call.resp.page.text_address.found
            THEN call.resp.page.text_address.text
            ELSE KNOWN_ADDRESSES(call.club_name)

(***************************************************************************)
(* C23: the discovery of the fuel page.                                    *)
(***************************************************************************)
\* The anchors with an href that the selectors of get_fuel_link find.
LinksFound(page) ==
    {k \in DOMAIN page.fuel_links :
        page.fuel_links[k].found /\ page.fuel_links[k].form # "none"}

\* C23: when the club page cannot be fetched get_fuel_link returns None, so
\* that the prices are requested from the club page; when it is fetched the
\* first selector that finds a link wins, and a URL is built by the path
\* convention only when the page was fetched and no selector found a link.
C23_FuelLinkDiscovery ==
    (call.op = "get_fuel_link" /\ call.n = 1) =>
        LET fetched == call.resp.kind = "ok" /\ ~call.resp.page.bot
            found == LinksFound(call.resp.page)
        IN  call.result =
               IF ~fetched
               THEN <<>>
               ELSE IF found # {}
                    THEN call.resp.page.fuel_links[
                            CHOOSE k \in found : \A j \in found : k <= j].path
                    ELSE IF HasClubPath(call.club_url)
                         THEN Append(call.club_url, "fuel-center")
                         ELSE <<>>

(***************************************************************************)
(* C24: a club that fails does not stop the batch.                         *)
(***************************************************************************)
\* scrape_all_clubs is under way.
InBatch == pc \in {"loop", "fetch", "log", "save_info", "save_prices"}

\* The steps scrape_all_clubs has left: five per club not yet handled, and
\* those of the loop body it is in.
StepsLeft ==
    5 * (total_clubs + 1 - idx)
       + (CASE pc = "loop" -> 4
            [] pc = "fetch" -> 3
            [] pc = "log" -> 2
            [] pc = "save_info" -> 1
            [] OTHER -> 0)

\* all_clubs holds one result for each club handled, in the order of
\* all_locations, each with at least one price row.
OneResultPerClub ==
    /\ Len(all_clubs) = idx - 1
    /\ \A n \in DOMAIN all_clubs :
          /\ all_clubs[n].name = all_locations[n]
          /\ all_clubs[n].prices # <<>>

\* C24: a failure for one club (failed fetch, nothing parsed, no data) never
\* stops the batch: whatever the outcomes of the fetches, each step of a run
\* of scrape_all_clubs brings its end nearer, and the run returns exactly one
\* result per configured club, in the order of the configuration, each with a
\* non-empty list of price rows.
C24_BatchNeverStops ==
    [][/\ InBatch' => OneResultPerClub'
       /\ (InBatch /\ InBatch' /\ events' = events) =>
             /\ StepsLeft' < StepsLeft
             /\ StepsLeft' >= 0
       /\ (InBatch /\ ~InBatch' /\ events' = events) => Len(all_clubs) = total_clubs]_vars

\* A run is about to return after the fetch of every club failed.
C24_Witness ==
    /\ pc = "loop"
    /\ idx > total_clubs
    /\ Len(all_clubs) = total_clubs
    /\ \A n \in DOMAIN all_clubs :
          /\ all_clubs[n].fuel_url # <<"Cached data">>
          /\ all_clubs[n].prices = << <<"No prices available", NAN>> >>

(***************************************************************************)
(* C25: the order of the extraction strategies.                            *)
(***************************************************************************)
\* The primary cards that yield a row.
PrimaryYield(page) ==
    {n \in DOMAIN page.cards :
        /\ page.cards[n].fuel.found /\ page.cards[n].price.found
        /\ page.cards[n].fuel.text # "" /\ page.cards[n].price.text # <<>>}

\* The first fallback selector that selects a card, 0 when none does.
FamilyTried(page) ==
    IF \A k \in DOMAIN page.fallback : page.fallback[k] = <<>>
    THEN 0
    ELSE CHOOSE k \in DOMAIN page.fallback :
            /\ page.fallback[k] # <<>>
            /\ \A j \in 1..(k - 1) : page.fallback[j] = <<>>

\* The row of a fallback card: its label, or "Unknown" without one.
FallbackRow(card) ==
    <<IF card.fuel.found THEN card.fuel.text ELSE "Unknown", card.price.text>>

\* The cards of a fallback family that yield a row.
FamilyYield(cards) ==
    {n \in DOMAIN cards :
        /\ cards[n].price.found
        /\ cards[n].price.text \notin {<<>>, NAN}
        /\ ~(cards[n].fuel.found /\ cards[n].fuel.text = "")}

\* rows are the rows of the cards picked, one each, in the order of the cards.
RowsInOrder(rows, cards, picked, RowOf(_)) ==
    /\ Len(rows) = Cardinality(picked)
    /\ \A n \in picked :
          rows[Cardinality({m \in picked : m <= n})] = RowOf(cards[n])

PrimaryRow(card) == <<card.fuel.text, card.price.text>>

\* C25: the strategies are tried in order and the first that yields rows
\* gives the result: the rows of the primary cards in document order, with no
\* fallback consulted; otherwise the rows of the first fallback family that
\* selects a card, a card with a price and no label giving ("Unknown", price);
\* and only when there is still no row the prices found in the text, each
\* under "Unknown".
C25_StrategyOrder ==
    (call.op = "get_gas_prices" /\ call.n = 1 /\ call.resp.kind = "ok") =>
        LET page == call.resp.page
            k == FamilyTried(page)
        IN  IF PrimaryYield(page) # {}
            THEN RowsInOrder(call.result, page.cards, PrimaryYield(page), PrimaryRow)
            ELSE IF k # 0 /\ FamilyYield(page.fallback[k]) # {}
                 THEN RowsInOrder(call.result, page.fallback[k],
                                  FamilyYield(page.fallback[k]), FallbackRow)
                 ELSE IF page.text_prices # <<>>
                      THEN call.result =
                              [n \in DOMAIN page.text_prices |->
                                  <<"Unknown", page.text_prices[n]>>]
                      ELSE call.result = << <<"No prices found", NAN>> >>

\* A document without primary cards, with an unlabelled card in the first
\* fallback family that selects any, cards in a later family and prices in the
\* text, has been read.
C25_Witness ==
    /\ call.op = "get_gas_prices"
    /\ call.n = 1
    /\ call.resp.kind = "ok"
    /\ call.resp.page.cards = <<>>
    /\ call.resp.page.fallback[4] # <<>>
    /\ call.resp.page.text_prices # <<>>
    /\ call.result = << <<"Unknown", Price310>>, <<"Premium", Price399>> >>

(***************************************************************************)
(* C26: a run after a terminated run, on the same date.                    *)
(***************************************************************************)
\* The step that terminates the process.
InterruptStep == interrupts' = interrupts + 1

\* C26: when a run is terminated mid-batch and the orchestrator is run again
\* on the same date, every club reconciled before the termination keeps its
\* AttemptRecord and its Observations and takes the cached path, which makes
\* no fetch and writes nothing, and every club not yet processed is still
\* eligible and is fetched by the later run.
C26_RerunAfterInterrupt ==
    [][/\ InterruptStep =>
             /\ store' = store
             /\ \A club \in ClubSet :
                   AttemptExists(club, today)' = AttemptExists(club, today)
       /\ interrupts > 0 =>
             /\ IsPrefix(price_history, price_history')
             /\ IsPrefix(scraping_log, scraping_log')
       /\ (interrupts > 0 /\ pc = "loop" /\ idx <= total_clubs /\ events' = events) =>
             IF AttemptExists(Current, today)
             THEN SkipStep /\ store' = store /\ fetches' = fetches
             ELSE ScrapeStep
       /\ (interrupts > 0 /\ pc = "fetch" /\ events' = events) =>
             /\ pc' = "log"
             /\ fetches'[Current, today] = fetches[Current, today] + 1]_vars

\* The first run of the date was terminated after the first club had been
\* reconciled; the next run has served that club from its Observations and has
\* fetched the second.
C26_Witness ==
    /\ interrupts = 1
    /\ today = 1
    /\ pc = "log"
    /\ idx = 2
    /\ all_clubs[1].fuel_url = <<"Cached data">>
    /\ all_clubs[1].prices[1] = <<"Regular", Price310>>
    /\ fetches[all_locations[1], today] = 1
    /\ fetches[all_locations[2], today] = 1

(***************************************************************************)
(* C27: what show_todays_data shows.                                       *)
(***************************************************************************)
\* C27: on the all-cached path the data show_todays_data reports are only
\* Observations whose scraped_date is today; an Observation of an earlier date
\* is never shown as data of today.
C27_ShowsOnlyToday ==
    pc = "show" =>
        \A utc_today \in UtcDates, tie \in TieOrders :
            \A n \in DOMAIN show_todays_data(utc_today, tie) :
                show_todays_data(utc_today, tie)[n].scraped_date = today

(***************************************************************************)
(* C28: a failed attempt and price_history.                                *)
(***************************************************************************)
\* C28: a failed attempt writes no Observation: the reconciliation of a club
\* whose attempt failed, with or without cached prices to fall back on, leaves
\* price_history unchanged; the cached prices it reports are not appended as
\* new rows of today with source 'scraped'.
C28_FailureWritesNoObservation ==
    [][(/\ pc \in {"log", "save_info", "save_prices"}
        /\ ~locals.success
        /\ events' = events)
       => price_history' = price_history]_vars

(***************************************************************************)
(* C29: prices_found and the rows written.                                 *)
(***************************************************************************)
\* C29: the prices_found of every AttemptRecord is the number of Observations
\* the same reconciliation appends to price_history, whatever was extracted:
\* rows of category "Unknown" and failed attempts that fall back on cached
\* prices included.
C29_PricesFoundIsRowsWritten ==
    [][(pc = "save_prices" /\ pc' = "loop")
       => /\ scraping_log[Len(scraping_log)].club_name = locals.club_info.name
          /\ Len(price_history') - Len(price_history)
                = scraping_log[Len(scraping_log)].prices_found]_vars

(***************************************************************************)
(* C30: the reconciliation of a club and a termination.                    *)
(***************************************************************************)
\* The Observations the attempt of the AttemptRecord record can have written:
\* they are stamped when they are saved, which is after the log.
ObservationsOf(record) ==
    {n \in DOMAIN price_history :
        /\ price_history[n].club_name = record.club_name
        /\ price_history[n].scraped_date >= record.scraped_date
        /\ price_history[n].source = "scraped"}

\* C30: the reconciliation of a club is atomic with respect to a termination:
\* in every state of the store a process leaves behind, also one terminated
\* between two store operations, a successful AttemptRecord with
\* prices_found > 0 is accompanied by the Observations of its attempt, so that
\* no club counts as attempted while its extracted prices are missing.
C30_AtomicReconciliation ==
    pc = "idle" =>
        \A n \in DOMAIN scraping_log :
            (scraping_log[n].success /\ scraping_log[n].prices_found > 0)
               => ObservationsOf(scraping_log[n]) # {}

(***************************************************************************)
(* C31: get_latest_prices and the fuel types of a club.                    *)
(***************************************************************************)
\* The rows of the club.
ClubRows(club) == {n \in DOMAIN price_history : price_history[n].club_name = club}

\* Row m is at least as new as row n.
NotOlder(m, n) ==
    \/ price_history[m].scraped_date > price_history[n].scraped_date
    \/ /\ price_history[m].scraped_date = price_history[n].scraped_date
       /\ price_history[m].scraped_time >= price_history[n].scraped_time

\* The fuel_type of every row of rows is a key of latest.
HasFuelTypesOf(latest, rows) ==
    \A n \in rows : \E k \in DOMAIN latest : latest[k][1] = price_history[n].fuel_type

\* C31, as stated: get_latest_prices is complete: every fuel type of which
\* price_history holds a row of the club is in the result, however many rows
\* the club has accumulated.
C31_LatestIsComplete ==
    \A club \in ClubSet, tie \in TieOrders :
        HasFuelTypesOf(get_latest_prices(club, tie), ClubRows(club))

\* C31, as amended: get_latest_prices reads the LatestLimit newest rows of the
\* club: the result has the fuel type of every row with fewer than LatestLimit
\* other rows of the club at least as new, so of every row while the club has
\* at most LatestLimit rows; a fuel type whose rows are all older is absent.
C31_LatestCoversNewestRows ==
    \A club \in ClubSet, tie \in TieOrders :
        HasFuelTypesOf(get_latest_prices(club, tie),
                       {n \in ClubRows(club) :
                           Cardinality({m \in ClubRows(club) :
                                           m # n /\ NotOlder(m, n)}) < LatestLimit})

\* A club has more rows than are read: the result has the two fuel types of
\* the newest rows and lacks the one of the older row.
C31_Witness ==
    /\ Cardinality(ClubRows(all_locations[1])) > LatestLimit
    /\ call.op = "save_price_data"
    /\ \E n \in ClubRows(all_locations[1]) :
          /\ price_history[n].fuel_type = "Regular"
          /\ price_history[n].scraped_date < today
    /\ \A tie \in TieOrders :
          /\ Len(get_latest_prices(all_locations[1], tie)) = 2
          /\ \A k \in 1..2 : get_latest_prices(all_locations[1], tie)[k][1] # "Regular"

(***************************************************************************)
(* C32: the dates of the facts of one reconciliation.                      *)
(***************************************************************************)
\* C32: the facts one reconciliation writes carry the date of its skip
\* decision: the AttemptRecord, the Observations and the last_updated of the
\* profile of a club have the date check_if_scraped_today used for the club,
\* also when midnight passes while the club is being processed.
C32_OneDatePerReconciliation ==
    [][/\ (pc = "log" /\ pc' = "save_info") =>
             scraping_log'[Len(scraping_log')].scraped_date = locals.checked
       /\ (pc = "save_info" /\ pc' = "save_prices") =>
             \A n \in DOMAIN clubs' :
                 clubs'[n].name = locals.club_info.name
                    => clubs'[n].last_updated[1] = locals.checked
       /\ (pc = "save_prices" /\ pc' = "loop") =>
             \A n \in (Len(price_history) + 1)..Len(price_history') :
                 price_history'[n].scraped_date = locals.checked]_vars

(***************************************************************************)
(* C33: get_price_trends and the fuel types of the window.                 *)
(***************************************************************************)
\* The rows of df of a fuel type whose price float() accepts.
ParseableRows(df, fuel_type) ==
    {n \in DOMAIN df :
        df[n].fuel_type = fuel_type /\ ParseFloat(StripPrice(df[n].price)).ok}

\* trends has an entry for every fuel type of df with a price float() accepts,
\* and the entry of a fuel type with one row counts one value, which is its
\* current, lowest, highest and average.
HasTrendOfEach(df, trends) ==
    \A n \in DOMAIN df :
        ParseableRows(df, df[n].fuel_type) # {}
           => /\ df[n].fuel_type \in DOMAIN trends
              /\ Cardinality({m \in DOMAIN df : df[m].fuel_type = df[n].fuel_type}) = 1
                    => LET entry == trends[df[n].fuel_type]
                       IN  /\ entry.data_points = 1
                           /\ entry.lowest = entry.current
                           /\ entry.highest = entry.current
                           /\ entry.average = entry.current

\* C33: get_price_trends has an entry for every category with at least one
\* parseable value among the rows of the window, also for a category observed
\* exactly once, whose current, min, max and mean are that value and whose
\* count is 1.
C33_TrendForEveryCategory ==
    \A club_name \in {"", all_locations[1]}, utc_today \in UtcDates, tie \in TieOrders :
        HasTrendOfEach(get_price_history(club_name, TrendDays, utc_today, tie),
                       get_price_trends(club_name, TrendDays, utc_today, tie))

====
